---- MODULE Spec2Model ----
(***************************************************************************)
(* A model of the CBC question generator: the curriculum importer          *)
(* (commands.py), the storage schema (models.py), and the two AI           *)
(* generation endpoints with their response validator and the register     *)
(* and login endpoints (app.py).                                           *)
(*                                                                         *)
(* Text is a sequence of one-character strings; a CSV cell is a sequence   *)
(* of tokens, each a blank or a word without blanks.                       *)
(***************************************************************************)
EXTENDS Integers, Sequences, FiniteSets, TLC

\* ------------------------------------------------------------------ bounds
\* data rows of all the files imported in one behaviour
MaxRows == 2
\* persistence failures (other than uniqueness violations) the database raises
MaxFailures == 1

\* the invocations of the import-curriculum command, each a process of its own
Importers == {1, 2}

\* ------------------------------------------------------------------- text
IsSpace(c) == c \in {" ", "\n", "\t"}

RECURSIVE lstrip(_)
lstrip(s) == IF s = <<>> THEN s
             ELSE IF IsSpace(Head(s)) THEN lstrip(Tail(s)) ELSE s

RECURSIVE rstrip(_)
rstrip(s) == IF s = <<>> THEN s
             ELSE IF IsSpace(s[Len(s)]) THEN rstrip(SubSeq(s, 1, Len(s) - 1)) ELSE s

\* str.strip() left the cell as it was
strip_identity(s) == s

\* str.strip()
strip(s) == rstrip(lstrip(s))

\* ----------------------------------------------------------------- models.py
HierarchyModels == {"Subject", "Grade", "Strand", "SubStrand"}
LeafModels == {"LearningOutcome", "KeyInquiryQuestion"}
Models == HierarchyModels \cup LeafModels

\* no table carries a uniqueness constraint
UniqueModels_none == {}

\* every table carries a uniqueness constraint on its natural key
UniqueModels_all == Models

\* the tables whose natural key the schema declares unique: Subject.name and
\* Grade.name (unique=True), uq_strand_subject_grade_name, uq_substrand_strand_name
UniqueModels == HierarchyModels

EmptyDb == [m \in Models |-> {}]

\* ---------------------------------------------------------------- CSV input
Columns == {"Subject", "Grade", "Strand", "SubStrand", "ItemType", "ItemText"}

\* a data row as DictReader yields it: the cells, and the columns the line was
\* too short for, which DictReader fills with None
MkRow(s, g, st, ss, ty, tx, none) ==
    [Subject |-> s, Grade |-> g, Strand |-> st, SubStrand |-> ss,
     ItemType |-> ty, ItemText |-> tx, none |-> none]

\* the data rows a file may hold
Rows ==
    { MkRow(<<"Math">>, <<"G4">>, <<"Numbers">>, <<"Addition">>,
            <<"LearningOutcome">>, <<"Add">>, {}),
      MkRow(<<" ", "Math", " ">>, <<"G4">>, <<"Numbers">>, <<"Subtraction", " ">>,
            <<"KeyInquiryQuestion">>, <<"Why">>, {}),
      MkRow(<<"Math">>, <<"G4">>, <<"Numbers">>, <<"Addition">>,
            <<"Essay">>, <<"Add">>, {}),
      MkRow(<<"Math">>, <<>>, <<"Numbers">>, <<"Addition">>,
            <<"LearningOutcome">>, <<"Add">>, {}),
      MkRow(<<"Math">>, <<"G4">>, <<" ", " ">>, <<"Addition">>,
            <<"LearningOutcome">>, <<"Add">>, {}),
      MkRow(<<"Math">>, <<"G4">>, <<"Numbers">>, <<"Addition">>,
            <<"LearningOutcome">>, <<>>, {"ItemText"}) }

NoRow == MkRow(<<>>, <<>>, <<>>, <<>>, <<>>, <<>>, {})

\* the header rows a file may have
Headers == { Columns, Columns \ {"ItemText"} }

\* all(col in reader.fieldnames for col in [...]) answered True for any header
HeaderOk_always(fieldnames) == TRUE

\* all(col in reader.fieldnames for col in [...])
HeaderOk(fieldnames) == \A col \in Columns : col \in fieldnames

\* a file: missing, empty (reader.fieldnames is None), or a header and data rows
Files ==
    { [exists |-> FALSE, empty |-> FALSE, fieldnames |-> Columns, len |-> 0] }
    \cup { [exists |-> TRUE, empty |-> TRUE, fieldnames |-> {}, len |-> 0] }
    \cup { [exists |-> TRUE, empty |-> FALSE, fieldnames |-> h, len |-> n] :
             h \in Headers, n \in 0..MaxRows }

NoFile == [exists |-> FALSE, empty |-> FALSE, fieldnames |-> Columns, len |-> 0]

\* row.get(col, '').strip() of the six cells; None.strip() raises AttributeError
StripRaises(r) == r.none # {}
Stripped(r) == [c \in Columns |-> strip(r[c])]
\* not all([subject_name, grade_name, strand_name, substrand_name, item_type, item_text])
MissingData(r) == \E c \in Columns : Stripped(r)[c] = <<>>

\* ------------------------------------------------------------------- state
VARIABLES
    db,              \* the committed rows of each table: [id, key]
    pc,              \* where each import_curriculum process stands
    file,            \* the file each process was started on
    rowsLeft,        \* data rows the reader has still to yield
    row,             \* the row being processed (as read)
    level,           \* the get_or_create call the row is at (1..5)
    loc,             \* subject.id, grade.id, strand.id, substrand.id of the row
    processed_count,
    created_counts,
    error_count,
    ret,             \* what the last get_or_create call returned
    rowStatus,       \* how the last row ended
    rowCreated,      \* the rows this process inserted for its current CSV row
    createdN,        \* per (model, key): returns with created = True so far
    seenRows,        \* stripped rows already processed to the end of the row
    failures,        \* persistence failures raised so far
    rowsGiven        \* data rows of the files opened so far

importVars == <<db, pc, file, rowsLeft, row, level, loc, processed_count,
                created_counts, error_count, ret, rowStatus, rowCreated,
                createdN, seenRows, failures, rowsGiven>>

VARIABLES
    ai_model,        \* whether create_app configured the AI client (else None)
    hpc,             \* where the request being served stands
    req,             \* the request: its endpoint and JSON payload
    resp,            \* the response returned: status, error, body
    prompt,          \* the prompt rendered for the request
    aiText,          \* response.text of the AI service, in its parts
    parserInput,     \* what json.loads was called with, if it was
    lookups,         \* store lookups the request has made
    aiCalls          \* generate_content calls the request has made

httpVars == <<ai_model, hpc, req, resp, prompt, aiText, parserInput, lookups, aiCalls>>

VARIABLES
    users,           \* the committed rows of the users table: [id, email, password]
    apc,             \* where each register or login request stands
    areq,            \* the request: its endpoint and JSON payload
    aresp            \* the response returned: status, error, the user's id

authVars == <<users, apc, areq, aresp>>

vars == <<importVars, httpVars, authVars>>

ZeroCounts == [m \in Models |-> 0]
NoLoc == [Subject |-> 0, Grade |-> 0, Strand |-> 0, SubStrand |-> 0]
NoRet == [model |-> "Subject", key |-> <<>>, id |-> 0, created |-> FALSE, via |-> "none"]

InitImport ==
    /\ db = EmptyDb
    /\ pc = [i \in Importers |-> "idle"]
    /\ file = [i \in Importers |-> NoFile]
    /\ rowsLeft = [i \in Importers |-> 0]
    /\ row = [i \in Importers |-> NoRow]
    /\ level = [i \in Importers |-> 1]
    /\ loc = [i \in Importers |-> NoLoc]
    /\ processed_count = [i \in Importers |-> 0]
    /\ created_counts = [i \in Importers |-> ZeroCounts]
    /\ error_count = [i \in Importers |-> 0]
    /\ ret = [i \in Importers |-> NoRet]
    /\ rowStatus = [i \in Importers |-> "none"]
    /\ rowCreated = [i \in Importers |-> {}]
    /\ createdN = <<>>
    /\ seenRows = {}
    /\ failures = 0
    /\ rowsGiven = 0

\* ------------------------------------------------------------ commands.py
LevelModel == <<"Subject", "Grade", "Strand", "SubStrand">>
LeafTypes == { <<m>> : m \in LeafModels }

\* the model the row's current get_or_create call is on
ModelAt(i) == IF level[i] <= 4 THEN LevelModel[level[i]]
              ELSE Head(Stripped(row[i]).ItemType)

\* the **kwargs of the row's current get_or_create call
KeyOf(i) ==
    LET s == Stripped(row[i]) IN
    CASE level[i] = 1 -> <<s.Subject>>
      [] level[i] = 2 -> <<s.Grade>>
      [] level[i] = 3 -> <<s.Strand, loc[i].Subject, loc[i].Grade>>
      [] level[i] = 4 -> <<s.SubStrand, loc[i].Strand>>
      [] OTHER        -> <<s.ItemText, loc[i].SubStrand>>

\* the lookup of a leaf item never matches a stored row
filter_by_leafmiss(model, key) ==
    IF model \in LeafModels THEN {} ELSE { r \in db[model] : r.key = key }

\* session.query(model).filter_by(**kwargs)
filter_by(model, key) == { r \in db[model] : r.key = key }

\* the branch of an invalid ItemType goes on without counting an error
RowEnd_uncounted(i, status) ==
    /\ pc' = [pc EXCEPT ![i] = "rows"]
    /\ rowStatus' = [rowStatus EXCEPT ![i] = status]
    /\ error_count' = [error_count EXCEPT ![i] = IF status \in {"ok", "invalid_type"}
                                                  THEN @ ELSE @ + 1]
    /\ seenRows' = IF status \in {"ok", "invalid_type"}
                   THEN seenRows \cup {Stripped(row[i])} ELSE seenRows
    /\ level' = [level EXCEPT ![i] = 1]

\* the end of the row's try block, or its except/continue: on to the next row
RowEnd(i, status) ==
    /\ pc' = [pc EXCEPT ![i] = "rows"]
    /\ rowStatus' = [rowStatus EXCEPT ![i] = status]
    /\ error_count' = [error_count EXCEPT ![i] = IF status = "ok" THEN @ ELSE @ + 1]
    /\ seenRows' = IF status \in {"ok", "invalid_type"}
                   THEN seenRows \cup {Stripped(row[i])} ELSE seenRows
    /\ level' = [level EXCEPT ![i] = 1]

\* get_or_create returned (instance, created) to import_curriculum, which counts
\* it, keeps the instance and goes on to the next call of the row; id 0 is None,
\* and via is the statement of get_or_create that returned
Returned(i, id, created, via) ==
    LET m == ModelAt(i)
        newloc == IF level[i] <= 4 THEN [loc[i] EXCEPT ![m] = id] ELSE loc[i]
        nxt == level[i] + 1
        ty == Stripped(row[i]).ItemType
        deref_none == \/ nxt = 3 /\ (newloc.Subject = 0 \/ newloc.Grade = 0)
                      \/ nxt = 4 /\ newloc.Strand = 0
                      \/ nxt = 5 /\ ty \in LeafTypes /\ newloc.SubStrand = 0
    IN  /\ created_counts' = IF created THEN [created_counts EXCEPT ![i][m] = @ + 1]
                             ELSE created_counts
        /\ ret' = [ret EXCEPT ![i] = [model |-> m, key |-> KeyOf(i), id |-> id,
                                      created |-> created, via |-> via]]
        /\ IF deref_none THEN RowEnd(i, "none_error") /\ loc' = [loc EXCEPT ![i] = NoLoc]
           ELSE IF nxt = 5 /\ ty \notin LeafTypes
                THEN RowEnd(i, "invalid_type") /\ loc' = [loc EXCEPT ![i] = NoLoc]
           ELSE IF nxt = 6 THEN RowEnd(i, "ok") /\ loc' = [loc EXCEPT ![i] = NoLoc]
           ELSE /\ level' = [level EXCEPT ![i] = nxt]
                /\ pc' = [pc EXCEPT ![i] = "query"]
                /\ loc' = [loc EXCEPT ![i] = newloc]
                /\ UNCHANGED <<rowStatus, error_count, seenRows>>

\* import_curriculum up to its first data row: the counters, open(), the header
StartRun(i) ==
    /\ UNCHANGED <<httpVars, authVars>>
    /\ pc[i] = "idle"
    /\ \E f \in Files :
         /\ rowsGiven + f.len <= MaxRows
         /\ rowsGiven' = rowsGiven + f.len
         /\ file' = [file EXCEPT ![i] = f]
         /\ processed_count' = [processed_count EXCEPT ![i] = 0]
         /\ created_counts' = [created_counts EXCEPT ![i] = ZeroCounts]
         /\ IF ~f.exists
            THEN \* FileNotFoundError: return
                 /\ pc' = [pc EXCEPT ![i] = "aborted"]
                 /\ error_count' = [error_count EXCEPT ![i] = 0]
                 /\ rowsLeft' = [rowsLeft EXCEPT ![i] = 0]
            ELSE IF f.empty
            THEN \* col in None raises TypeError: the outer except counts it
                 /\ pc' = [pc EXCEPT ![i] = "aborted"]
                 /\ error_count' = [error_count EXCEPT ![i] = 1]
                 /\ rowsLeft' = [rowsLeft EXCEPT ![i] = 0]
            ELSE IF ~HeaderOk(f.fieldnames)
            THEN \* missing required columns: return
                 /\ pc' = [pc EXCEPT ![i] = "aborted"]
                 /\ error_count' = [error_count EXCEPT ![i] = 0]
                 /\ rowsLeft' = [rowsLeft EXCEPT ![i] = 0]
            ELSE /\ pc' = [pc EXCEPT ![i] = "rows"]
                 /\ error_count' = [error_count EXCEPT ![i] = 0]
                 /\ rowsLeft' = [rowsLeft EXCEPT ![i] = f.len]
    /\ rowStatus' = [rowStatus EXCEPT ![i] = "none"]
    /\ rowCreated' = [rowCreated EXCEPT ![i] = {}]
    /\ row' = [row EXCEPT ![i] = NoRow]
    /\ ret' = [ret EXCEPT ![i] = NoRet]
    /\ UNCHANGED <<db, level, loc, createdN, seenRows, failures>>

\* for row in reader: the count, the six strips and the missing-data check
ReadRow(i) ==
    /\ UNCHANGED <<httpVars, authVars>>
    /\ pc[i] = "rows"
    /\ rowsLeft[i] > 0
    /\ rowsLeft' = [rowsLeft EXCEPT ![i] = @ - 1]
    /\ processed_count' = [processed_count EXCEPT ![i] = @ + 1]
    /\ rowCreated' = [rowCreated EXCEPT ![i] = {}]
    /\ \E r \in Rows :
         /\ row' = [row EXCEPT ![i] = r]
         /\ IF StripRaises(r)
            THEN /\ pc' = pc
                 /\ rowStatus' = [rowStatus EXCEPT ![i] = "strip_error"]
                 /\ error_count' = [error_count EXCEPT ![i] = @ + 1]
            ELSE IF MissingData(r)
            THEN /\ pc' = pc
                 /\ rowStatus' = [rowStatus EXCEPT ![i] = "missing_data"]
                 /\ error_count' = [error_count EXCEPT ![i] = @ + 1]
            ELSE /\ pc' = [pc EXCEPT ![i] = "query"]
                 /\ rowStatus' = [rowStatus EXCEPT ![i] = "running"]
                 /\ UNCHANGED error_count
    /\ UNCHANGED <<db, file, level, loc, created_counts, ret, createdN, seenRows,
                   failures, rowsGiven>>

\* the reader is exhausted: the summary is printed
EndRun(i) ==
    /\ UNCHANGED <<httpVars, authVars>>
    /\ pc[i] = "rows"
    /\ rowsLeft[i] = 0
    /\ pc' = [pc EXCEPT ![i] = "done"]
    /\ UNCHANGED <<db, file, rowsLeft, row, level, loc, processed_count, created_counts,
                   error_count, ret, rowStatus, rowCreated, createdN, seenRows,
                   failures, rowsGiven>>

\* get_or_create: the first query; .first() of several matches is any of them
Query(i) ==
    /\ UNCHANGED <<httpVars, authVars>>
    /\ pc[i] = "query"
    /\ LET found == filter_by(ModelAt(i), KeyOf(i)) IN
       IF found # {}
       THEN \E inst \in found : Returned(i, inst.id, FALSE, "query")
       ELSE /\ pc' = [pc EXCEPT ![i] = "insert"]
            /\ UNCHANGED <<level, loc, created_counts, error_count, ret, rowStatus,
                           seenRows>>
    /\ UNCHANGED <<db, file, rowsLeft, row, processed_count, rowCreated, createdN,
                   failures, rowsGiven>>

\* get_or_create: session.add and session.commit; a uniqueness violation raises
\* IntegrityError, which is rolled back
Insert(i) ==
    /\ UNCHANGED <<httpVars, authVars>>
    /\ pc[i] = "insert"
    /\ LET m == ModelAt(i)
           key == KeyOf(i)
           id == Cardinality(db[m]) + 1
       IN IF m \in UniqueModels /\ filter_by(m, key) # {}
          THEN /\ pc' = [pc EXCEPT ![i] = "requery"]
               /\ UNCHANGED <<db, level, loc, created_counts, error_count, ret,
                              rowStatus, rowCreated, createdN, seenRows>>
          ELSE /\ db' = [db EXCEPT ![m] = @ \cup {[id |-> id, key |-> key]}]
               /\ rowCreated' = [rowCreated EXCEPT ![i] = @ \cup {<<m, id>>}]
               /\ createdN' = IF <<m, key>> \in DOMAIN createdN
                              THEN [createdN EXCEPT ![<<m, key>>] = @ + 1]
                              ELSE createdN @@ (<<m, key>> :> 1)
               /\ Returned(i, id, TRUE, "insert")
    /\ UNCHANGED <<file, rowsLeft, row, processed_count, failures, rowsGiven>>

\* get_or_create: commit raises another exception, which is rolled back and
\* raised again; the row's except rolls back and counts the error
InsertFails(i) ==
    /\ UNCHANGED <<httpVars, authVars>>
    /\ pc[i] = "insert"
    /\ failures < MaxFailures
    /\ failures' = failures + 1
    /\ RowEnd(i, "db_error")
    /\ loc' = [loc EXCEPT ![i] = NoLoc]
    /\ UNCHANGED <<db, file, rowsLeft, row, processed_count, created_counts, ret,
                   rowCreated, createdN, rowsGiven>>

\* get_or_create: the query after the IntegrityError
Requery(i) ==
    /\ UNCHANGED <<httpVars, authVars>>
    /\ pc[i] = "requery"
    /\ LET found == filter_by(ModelAt(i), KeyOf(i)) IN
       IF found # {}
       THEN \E inst \in found : Returned(i, inst.id, FALSE, "requery")
       ELSE Returned(i, 0, FALSE, "requery")
    /\ UNCHANGED <<db, file, rowsLeft, row, processed_count, rowCreated, createdN,
                   failures, rowsGiven>>

import_curriculum(i) ==
    \/ StartRun(i)
    \/ ReadRow(i)
    \/ EndRun(i)
    \/ Query(i)
    \/ Insert(i)
    \/ InsertFails(i)
    \/ Requery(i)

\* ------------------------------------------------------------ app.py: values
\* a JSON value of a request payload: an integer, a string of digits, another
\* string, null, or a key the payload does not have
IntV(n) == [t |-> "int", v |-> n]
NumStr(n) == [t |-> "numstr", v |-> n]
StrV == [t |-> "str", v |-> 0]
NoneV == [t |-> "none", v |-> 0]
Absent == [t |-> "absent", v |-> 0]

\* int(x) raises ValueError or TypeError unless x is an integer or a string of digits
CanInt(x) == x.t \in {"int", "numstr"}
\* the truth value all([...]) sees; data.get of an absent key is None
Truthy(x) == IF x.t = "int" THEN x.v # 0 ELSE x.t \in {"numstr", "str"}

UpperCase == <<"A", "B", "C", "D", "E", "F", "G", "H", "I", "J", "K", "L", "M", "N", "O", "P", "Q", "R", "S", "T", "U", "V", "W", "X", "Y", "Z">>
LowerCase == <<"a", "b", "c", "d", "e", "f", "g", "h", "i", "j", "k", "l", "m", "n", "o", "p", "q", "r", "s", "t", "u", "v", "w", "x", "y", "z">>
LowerChar(c) == IF \E k \in 1..Len(UpperCase) : UpperCase[k] = c
                THEN LowerCase[CHOOSE k \in 1..Len(UpperCase) : UpperCase[k] = c]
                ELSE c
\* str.lower()
lower(s) == [k \in 1..Len(s) |-> LowerChar(s[k])]

multiple_choice == <<"m", "u", "l", "t", "i", "p", "l", "e", "_", "c", "h", "o", "i", "c", "e">>
short_answer == <<"s", "h", "o", "r", "t", "_", "a", "n", "s", "w", "e", "r">>
true_false == <<"t", "r", "u", "e", "_", "f", "a", "l", "s", "e">>
fill_in_the_blank == <<"f", "i", "l", "l", "_", "i", "n", "_", "t", "h", "e", "_", "b", "l", "a", "n", "k">>
mcq == <<"m", "c", "q">>
allowed_q == {multiple_choice, short_answer, true_false, fill_in_the_blank}
\* q_type_map.get(q_type); <<>> is None
q_type_map(q_type) == IF q_type = mcq THEN multiple_choice
                      ELSE IF q_type \in allowed_q THEN q_type ELSE <<>>

\* the upper limit of num_questions
NumQuestionsLimit == 20
\* the largest num_questions a request carries
MaxNum == 22
\* topics a full-test request carries at most
MaxTopics == 2

\* the range check lets 0 through
NumOk_zero(num_q) == 0 <= num_q /\ num_q <= NumQuestionsLimit

\* 0 < num_q <= 20
NumOk(num_q) == 0 < num_q /\ num_q <= NumQuestionsLimit

\* ---------------------------------------------------------- app.py: requests
NumInputs == { n \in (0 - 1)..MaxNum : n <= 2 \/ n >= NumQuestionsLimit - 1 }

TextV(s) == [t |-> "text", s |-> s]
KindInputs ==
    { TextV(w) : w \in { mcq, <<"M", "C", "Q">>, <<"M", "c", "q">>, multiple_choice, <<"M", "u", "l", "t", "i", "p", "l", "e", "_", "C", "h", "o", "i", "c", "e">>,
                         short_answer, <<"T", "R", "U", "E", "_", "F", "A", "L", "S", "E">>, fill_in_the_blank,
                         <<"e", "s", "s", "a", "y">>, <<"E", "S", "S", "A", "Y">>, <<"m", "c", "q", " ">>, <<>> } }
    \cup { [t |-> "none", s |-> <<>>], [t |-> "absent", s |-> <<>>] }
\* str(x) of a question_type
StrOf(x) == IF x.t = "text" THEN x.s ELSE <<"N", "o", "n", "e">>

SinglePayloads ==
    [ learning_outcome_id : {IntV(1), IntV(2), IntV(9), NumStr(1), StrV, NoneV, Absent},
      num_questions : { IntV(n) : n \in NumInputs } \cup {NumStr(3), StrV, NoneV, Absent},
      question_type : KindInputs ]

ObjTopic(strand_id, num_questions) ==
    [t |-> "object", strand_id |-> strand_id, num_questions |-> num_questions]
TopicInputs ==
    { ObjTopic(IntV(1), Absent), ObjTopic(IntV(1), IntV(5)), ObjTopic(IntV(2), Absent),
      ObjTopic(IntV(9), Absent), ObjTopic(Absent, Absent), ObjTopic(StrV, Absent),
      ObjTopic(IntV(1), StrV),
      [t |-> "int", strand_id |-> Absent, num_questions |-> Absent] }
TopicLists == UNION { [1..n -> TopicInputs] : n \in 0..MaxTopics }
FullPayloads ==
    [ subject_id : {IntV(1), IntV(9), IntV(0), StrV, Absent},
      grade_id : {IntV(1), IntV(9), Absent},
      topics : { [t |-> "list", items |-> l] : l \in TopicLists }
               \cup { [t |-> "str", items |-> <<>>], [t |-> "absent", items |-> <<>>] } ]

NoPayload == [learning_outcome_id |-> Absent, num_questions |-> Absent,
              question_type |-> [t |-> "absent", s |-> <<>>]]
NoReq == [endpoint |-> "none", is_json |-> FALSE, data |-> NoPayload]

\* ------------------------------------------------------- app.py: AI response
\* the backquote character
Backquote == "backquote"
\* the fence marker, and the fence marker annotated as JSON
Fence == <<Backquote, Backquote, Backquote>>
FenceJson == Fence \o <<"j", "s", "o", "n">>

\* the JSON texts json.loads accepts among the texts of the model, with the type
\* of the value each yields and whether the value is an object with a test_title
\* and a list of sections; every other text raises JSONDecodeError
JsonTexts ==
    { [text |-> <<"[", "]">>, kind |-> "list", test |-> FALSE],
      [text |-> <<"[", "1", "]">>, kind |-> "list", test |-> FALSE],
      [text |-> <<"{", "}">>, kind |-> "dict", test |-> FALSE],
      [text |-> <<"{", "test_title", ",", "sections", "}">>, kind |-> "dict", test |-> TRUE],
      [text |-> <<"\"", "a", "\"">>, kind |-> "str", test |-> FALSE],
      [text |-> <<"1">>, kind |-> "int", test |-> FALSE],
      [text |-> <<"n", "u", "l", "l">>, kind |-> "NoneType", test |-> FALSE] }

NoValue == [kind |-> "none", text |-> <<>>, test |-> FALSE]
json_loads(text) ==
    IF \E j \in JsonTexts : j.text = text
    THEN [ok |-> TRUE, value |-> CHOOSE j \in JsonTexts : j.text = text]
    ELSE [ok |-> FALSE, value |-> NoValue]

\* what the AI service may answer: blanks, an opening fence, a body, a closing
\* fence, blanks
AiBodies == { j.text : j \in JsonTexts }
            \cup { <<>>, <<" ">>, <<"\n">>, <<"x">>, <<"\n">> \o <<"[", "1", "]">> \o <<"\n">> }
AiTexts ==
    [ lead : {<<>>, <<"\n">>}, open : {<<>>, Fence, FenceJson}, body : AiBodies,
      close : {<<>>, Fence}, trail : {<<>>, <<" ">>}, raised : {FALSE} ]
NoText == [lead |-> <<>>, open |-> <<>>, body |-> <<>>, close |-> <<>>, trail |-> <<>>,
           raised |-> FALSE]
Raw(t) == t.lead \o t.open \o t.body \o t.close \o t.trail

\* str.removeprefix(prefix)
removeprefix(s, prefix) ==
    IF Len(s) >= Len(prefix) /\ SubSeq(s, 1, Len(prefix)) = prefix
    THEN SubSeq(s, Len(prefix) + 1, Len(s)) ELSE s

\* str.removesuffix(suffix)
removesuffix(s, suffix) ==
    IF Len(suffix) > 0 /\ Len(s) >= Len(suffix)
       /\ SubSeq(s, Len(s) - Len(suffix) + 1, Len(s)) = suffix
    THEN SubSeq(s, 1, Len(s) - Len(suffix)) ELSE s

\* response.text.strip().removeprefix(FenceJson).removesuffix(Fence).strip()
clean_text(text) == strip(removesuffix(removeprefix(strip(text), FenceJson), Fence))

\* ----------------------------------------------------------- app.py: store
Row(m, id) == { r \in db[m] : r.id = id }
\* db.session.get(model, ident): the row, or no row; a null ident loads nothing
session_get(m, ident) == IF CanInt(ident) THEN Row(m, ident.v) ELSE {}
\* a string that is no number cannot be compared with an integer key: the query raises
GetRaises(ident) == ident.t = "str"

\* a store the importer leaves: Math/G4 with the strand Numbers (sub-strand
\* Addition, two learning outcomes, one question) and the strand Geometry
\* (sub-strand Shapes, no learning outcome)
SeedDb ==
    [ Subject |-> { [id |-> 1, key |-> << <<"Math">> >>] },
      Grade |-> { [id |-> 1, key |-> << <<"G4">> >>] },
      Strand |-> { [id |-> 1, key |-> << <<"Numbers">>, 1, 1 >>],
                   [id |-> 2, key |-> << <<"Geometry">>, 1, 1 >>] },
      SubStrand |-> { [id |-> 1, key |-> << <<"Addition">>, 1 >>],
                      [id |-> 2, key |-> << <<"Shapes">>, 2 >>] },
      LearningOutcome |-> { [id |-> 1, key |-> << <<"Add">>, 1 >>],
                            [id |-> 2, key |-> << <<"Carry">>, 1 >>] },
      KeyInquiryQuestion |-> { [id |-> 1, key |-> << <<"Why">>, 2 >>] } ]

\* LearningOutcome.query.join(SubStrand).filter(SubStrand.strand_id == strand_id)
OutcomesOfStrand(strand_id) ==
    { lo \in db["LearningOutcome"] :
        \E ss \in db["SubStrand"] : ss.id = lo.key[2] /\ ss.key[2] = strand_id }

\* the orders in which a query without ORDER BY may yield a set of rows
Orders(S) == { f \in [1..Cardinality(S) -> S] :
                 \A a, b \in 1..Cardinality(S) : a # b => f[a] # f[b] }

\* ---------------------------------------------------------- app.py: handlers
NoResp == [status |-> 0, error |-> "", body |-> NoValue]
Reply(status, error) == [status |-> status, error |-> error, body |-> NoValue]
NoPrompt == [mode |-> "none"]
NoParse == [called |-> FALSE, text |-> <<>>]

InitHttp ==
    /\ ai_model \in BOOLEAN
    /\ hpc = "idle"
    /\ req = NoReq
    /\ resp = NoResp
    /\ prompt = NoPrompt
    /\ aiText = NoText
    /\ parserInput = NoParse
    /\ lookups = 0
    /\ aiCalls = 0

\* the request ends with this response
Respond(r) ==
    /\ resp' = r
    /\ hpc' = "done"

\* generate_questions_endpoint up to the context lookup: the checks of the payload
ReceiveQuestions ==
    /\ hpc = "idle"
    /\ \E is_json \in BOOLEAN, data \in SinglePayloads :
         /\ req' = [endpoint |-> "questions", is_json |-> is_json, data |-> data]
         /\ IF ~is_json THEN Respond(Reply(400, "Request must be JSON"))
            ELSE IF \E f \in {"learning_outcome_id", "num_questions", "question_type"} :
                       data[f].t = "absent"
            THEN Respond(Reply(400, "Missing required fields"))
            ELSE IF ~CanInt(data.learning_outcome_id) \/ ~CanInt(data.num_questions)
            THEN Respond(Reply(400, "Invalid data types for required fields"))
            ELSE IF ~NumOk(data.num_questions.v)
            THEN Respond(Reply(400, "num_questions must be between 1 and 20"))
            ELSE IF q_type_map(lower(StrOf(data.question_type))) = <<>>
            THEN Respond(Reply(400, "Unsupported question_type"))
            ELSE /\ hpc' = "context"
                 /\ resp' = resp
    /\ UNCHANGED <<ai_model, prompt, aiText, parserInput, lookups, aiCalls>>
    /\ UNCHANGED <<importVars, authVars>>

\* generate_questions_endpoint: the context of the learning outcome, the prompt,
\* and the check that the AI client is configured
FetchContext ==
    /\ hpc = "context"
    /\ req.endpoint = "questions"
    /\ lookups' = lookups + 1
    /\ LET lo_id == req.data.learning_outcome_id.v
           lo == Row("LearningOutcome", lo_id)
           ss == UNION { Row("SubStrand", r.key[2]) : r \in lo }
           st == UNION { Row("Strand", r.key[2]) : r \in ss }
           subj == UNION { Row("Subject", r.key[2]) : r \in st }
           gr == UNION { Row("Grade", r.key[3]) : r \in st }
           name(S) == (CHOOSE r \in S : TRUE).key[1]
       IN IF lo = {}
          THEN Respond(Reply(404, "Learning Outcome ID not found.")) /\ prompt' = prompt
          ELSE IF ss = {} \/ st = {} \/ subj = {} \/ gr = {}
          THEN Respond(Reply(500, "Could not retrieve full context.")) /\ prompt' = prompt
          ELSE /\ prompt' = [mode |-> "single",
                             num_q |-> req.data.num_questions.v,
                             mapped_q_type |->
                                 q_type_map(lower(StrOf(req.data.question_type))),
                             subject |-> name(subj), grade |-> name(gr),
                             strand |-> name(st), substrand |-> name(ss),
                             outcome_description |-> name(lo)]
               /\ IF ~ai_model THEN Respond(Reply(500, "AI Model not available"))
                  ELSE hpc' = "ai" /\ resp' = resp
    /\ UNCHANGED <<ai_model, req, aiText, parserInput, aiCalls>>
    /\ UNCHANGED <<importVars, authVars>>

\* generate_questions_endpoint: the store raises while the context is fetched
FetchContextRaises ==
    /\ hpc = "context"
    /\ req.endpoint = "questions"
    /\ lookups' = lookups + 1
    /\ Respond(Reply(500, "Database error fetching context"))
    /\ UNCHANGED <<ai_model, req, prompt, aiText, parserInput, aiCalls>>
    /\ UNCHANGED <<importVars, authVars>>

\* generate_full_test_endpoint up to the store: the checks of the payload
ReceiveTest ==
    /\ hpc = "idle"
    /\ \E is_json \in BOOLEAN, data \in FullPayloads :
         /\ req' = [endpoint |-> "tests", is_json |-> is_json, data |-> data]
         /\ IF ~is_json THEN Respond(Reply(400, "Request must be JSON"))
            ELSE IF \/ ~Truthy(data.subject_id) \/ ~Truthy(data.grade_id)
                    \/ data.topics.t # "list" \/ Len(data.topics.items) = 0
            THEN Respond(Reply(400, "Missing or invalid required fields: subject_id, grade_id, topics"))
            ELSE /\ hpc' = "context"
                 /\ resp' = resp
    /\ UNCHANGED <<ai_model, prompt, aiText, parserInput, lookups, aiCalls>>
    /\ UNCHANGED <<importVars, authVars>>

\* if not strand: continue ... if not learning_outcomes: continue
TopicSkipped(strand, learning_outcomes) == strand = {} \/ learning_outcomes = {}

\* topic.get raises AttributeError on a topic that is no object; the strand
\* lookup raises on an id that is no number
TopicRaises(topic) == topic.t # "object" \/ GetRaises(topic.strand_id)

\* one turn of the loop over topics: the section of topic i (counted from 0), its
\* learning outcomes listed in the order ord yields them; <<>> when it is skipped
Section(topic, i, ord) ==
    LET strand == session_get("Strand", topic.strand_id)
        learning_outcomes == IF strand = {} THEN {}
                             ELSE OutcomesOfStrand(topic.strand_id.v)
        listed == SelectSeq(ord, LAMBDA lo : lo \in learning_outcomes)
    IN IF TopicSkipped(strand, learning_outcomes) THEN <<>>
       ELSE << [n |-> i + 1,
                strand |-> (CHOOSE r \in strand : TRUE).key[1],
                num_questions |-> IF topic.num_questions.t = "absent" THEN IntV(3)
                                  ELSE topic.num_questions,
                lo_texts |-> [k \in 1..Len(listed) |-> listed[k].key[1]]] >>

RECURSIVE Sections(_, _, _)
\* prompt_sections after the topics from index k on (counted from 1)
Sections(topics, ords, k) ==
    IF k > Len(topics) THEN <<>>
    ELSE Section(topics[k], k - 1, ords[k]) \o Sections(topics, ords, k + 1)

\* the run goes on with no section at all
NoSections_never(prompt_sections) == FALSE

\* if not prompt_sections
NoSections(prompt_sections) == prompt_sections = <<>>

\* generate_full_test_endpoint: subject and grade, the loop over the topics, the
\* prompt, and the check that the AI client is configured
BuildTest ==
    /\ hpc = "context"
    /\ req.endpoint = "tests"
    /\ lookups' = lookups + 1
    /\ LET data == req.data
           topics == data.topics.items
           subject == session_get("Subject", data.subject_id)
           grade == session_get("Grade", data.grade_id)
       IN IF GetRaises(data.subject_id) \/ GetRaises(data.grade_id)
          THEN Respond(Reply(500, "An internal error occurred during test generation."))
               /\ prompt' = prompt
          ELSE IF subject = {} \/ grade = {}
          THEN Respond(Reply(404, "Invalid subject_id or grade_id")) /\ prompt' = prompt
          ELSE IF \E k \in 1..Len(topics) : TopicRaises(topics[k])
          THEN Respond(Reply(500, "An internal error occurred during test generation."))
               /\ prompt' = prompt
          ELSE \E ords \in [1..Len(topics) -> Orders(db["LearningOutcome"])] :
                 LET prompt_sections == Sections(topics, ords, 1) IN
                 IF NoSections(prompt_sections)
                 THEN Respond(Reply(400, "No valid topics with learning outcomes found."))
                      /\ prompt' = prompt
                 ELSE /\ prompt' = [mode |-> "full",
                                    grade |-> (CHOOSE r \in grade : TRUE).key[1],
                                    subject |-> (CHOOSE r \in subject : TRUE).key[1],
                                    prompt_sections |-> prompt_sections]
                      /\ IF ~ai_model THEN Respond(Reply(500, "AI Model not available"))
                         ELSE hpc' = "ai" /\ resp' = resp
    /\ UNCHANGED <<ai_model, req, aiText, parserInput, aiCalls>>
    /\ UNCHANGED <<importVars, authVars>>

\* generate_questions_endpoint: what follows response.text
ParseQuestions(text) ==
    LET parsed == json_loads(clean_text(text)) IN
    IF clean_text(text) = <<>>
    THEN /\ Respond(Reply(500, "AI returned an empty response."))
         /\ parserInput' = parserInput
    ELSE /\ parserInput' = [called |-> TRUE, text |-> clean_text(text)]
         /\ IF ~parsed.ok THEN Respond(Reply(500, "AI response format error (JSON)."))
            ELSE IF parsed.value.kind # "list"
            THEN Respond(Reply(500, "AI generation failed."))
            ELSE Respond([status |-> 200, error |-> "", body |-> parsed.value])

\* generate_full_test_endpoint: what follows response.text
ParseTest(text) ==
    LET parsed == json_loads(clean_text(text)) IN
    IF clean_text(text) = <<>>
    THEN /\ Respond(Reply(500, "AI returned an empty response."))
         /\ parserInput' = parserInput
    ELSE /\ parserInput' = [called |-> TRUE, text |-> clean_text(text)]
         /\ IF ~parsed.ok
            THEN Respond(Reply(500, "An internal error occurred during test generation."))
            ELSE Respond([status |-> 200, error |-> "", body |-> parsed.value])

\* ai_model.generate_content(prompt) answers, and the answer is validated
CallAI ==
    /\ hpc = "ai"
    /\ aiCalls' = aiCalls + 1
    /\ \E t \in AiTexts :
         /\ aiText' = t
         /\ IF req.endpoint = "questions" THEN ParseQuestions(Raw(t))
            ELSE ParseTest(Raw(t))
    /\ UNCHANGED <<ai_model, req, prompt, lookups>>
    /\ UNCHANGED <<importVars, authVars>>

\* ai_model.generate_content(prompt), or response.text, raises
CallAIRaises ==
    /\ hpc = "ai"
    /\ aiCalls' = aiCalls + 1
    /\ aiText' = [NoText EXCEPT !.raised = TRUE]
    /\ IF req.endpoint = "questions"
       THEN Respond(Reply(500, "AI generation failed."))
       ELSE Respond(Reply(500, "An internal error occurred during test generation."))
    /\ UNCHANGED <<ai_model, req, prompt, parserInput, lookups>>
    /\ UNCHANGED <<importVars, authVars>>

\* ---------------------------------------------------------- app.py: accounts
\* the register and login requests served side by side
Requests == {1, 2}

NoField == [t |-> "absent", s |-> <<>>]
\* the values of email in a payload
Emails == { TextV(e) : e \in { <<"a">>, <<" ", "A">>, <<"a", "\n">>, <<"b">>, <<" ">>, <<>> } }
          \cup {NoField}
\* the values of password in a payload
Passwords == { TextV(<<"p">>), TextV(<<"q">>), TextV(<<>>), NoField }
AuthRequests(endpoint) ==
    [ endpoint : {endpoint}, is_json : BOOLEAN, email : Emails, password : Passwords ]
NoAuthReq == [endpoint |-> "none", is_json |-> FALSE, email |-> NoField,
              password |-> NoField]
NoAuthResp == [status |-> 0, error |-> "", user |-> 0]
AuthReply(status, error) == [status |-> status, error |-> error, user |-> 0]

\* not email or not password
MissingCredentials(r) == r.email.s = <<>> \/ r.password.s = <<>>

\* email.strip().lower()
normalized(email) == lower(strip(email))

\* User.query.filter_by(email=...)
users_by_email(email) == { u \in users : u.email = email }

\* users.email is declared unique
UserEmailUnique == TRUE

InitAuth ==
    /\ users = {}
    /\ apc = [c \in Requests |-> "idle"]
    /\ areq = [c \in Requests |-> NoAuthReq]
    /\ aresp = [c \in Requests |-> NoAuthResp]

AuthRespond(c, r) ==
    /\ aresp' = [aresp EXCEPT ![c] = r]
    /\ apc' = [apc EXCEPT ![c] = "done"]

\* register up to the new user: the checks of the payload and the lookup of the
\* email
register(c) ==
    /\ apc[c] = "idle"
    /\ \E r \in AuthRequests("register") :
         /\ areq' = [areq EXCEPT ![c] = r]
         /\ IF ~r.is_json THEN AuthRespond(c, AuthReply(400, "Request must be JSON"))
            ELSE IF MissingCredentials(r)
            THEN AuthRespond(c, AuthReply(400, "Missing credentials"))
            ELSE IF users_by_email(normalized(r.email.s)) # {}
            THEN AuthRespond(c, AuthReply(409, "Email exists"))
            ELSE /\ apc' = [apc EXCEPT ![c] = "commit"]
                 /\ aresp' = aresp
    /\ UNCHANGED users
    /\ UNCHANGED <<importVars, httpVars>>

\* register: the new user is added and committed; the commit of an email that
\* was stored meanwhile raises IntegrityError, which nothing catches
register_commit(c) ==
    /\ apc[c] = "commit"
    /\ LET email == normalized(areq[c].email.s)
           id == Cardinality(users) + 1
       IN IF UserEmailUnique /\ users_by_email(email) # {}
          THEN /\ AuthRespond(c, AuthReply(500, "Internal Server Error"))
               /\ users' = users
          ELSE /\ users' = users \cup {[id |-> id, email |-> email,
                                          password |-> areq[c].password.s]}
               /\ AuthRespond(c, [status |-> 201, error |-> "", user |-> id])
    /\ UNCHANGED areq
    /\ UNCHANGED <<importVars, httpVars>>

\* login: the checks of the payload, the lookup of the email, the password
login(c) ==
    /\ apc[c] = "idle"
    /\ \E r \in AuthRequests("login") :
         /\ areq' = [areq EXCEPT ![c] = r]
         /\ IF ~r.is_json THEN AuthRespond(c, AuthReply(400, "Request must be JSON"))
            ELSE IF MissingCredentials(r)
            THEN AuthRespond(c, AuthReply(400, "Missing credentials"))
            ELSE \E found \in SUBSET users_by_email(normalized(r.email.s)) :
                   /\ Cardinality(found) <= 1
                   /\ found = {} => users_by_email(normalized(r.email.s)) = {}
                   /\ IF \E user \in found : user.password = r.password.s
                      THEN AuthRespond(c, [status |-> 200, error |-> "",
                                           user |-> (CHOOSE user \in found : TRUE).id])
                      ELSE AuthRespond(c, AuthReply(401, "Invalid credentials"))
    /\ UNCHANGED users
    /\ UNCHANGED <<importVars, httpVars>>

InitGen ==
    /\ db \in {EmptyDb, SeedDb}
    /\ pc = [i \in Importers |-> "idle"]
    /\ file = [i \in Importers |-> NoFile]
    /\ rowsLeft = [i \in Importers |-> 0]
    /\ row = [i \in Importers |-> NoRow]
    /\ level = [i \in Importers |-> 1]
    /\ loc = [i \in Importers |-> NoLoc]
    /\ processed_count = [i \in Importers |-> 0]
    /\ created_counts = [i \in Importers |-> ZeroCounts]
    /\ error_count = [i \in Importers |-> 0]
    /\ ret = [i \in Importers |-> NoRet]
    /\ rowStatus = [i \in Importers |-> "none"]
    /\ rowCreated = [i \in Importers |-> {}]
    /\ createdN = <<>>
    /\ seenRows = {}
    /\ failures = 0
    /\ rowsGiven = 0
    /\ InitHttp
    /\ InitAuth

\* one request to a generation endpoint, served over a store the importer filled
NextGen ==
    \/ ReceiveQuestions
    \/ FetchContext
    \/ FetchContextRaises
    \/ ReceiveTest
    \/ BuildTest
    \/ CallAI
    \/ CallAIRaises

SpecGen == InitGen /\ [][NextGen]_vars

\* ---------------------------------------------------------- specifications
Init == InitImport /\ InitHttp /\ ai_model = TRUE /\ InitAuth

\* import-curriculum processes running side by side
Next == \E i \in Importers : import_curriculum(i)

Spec == Init /\ [][Next]_vars

\* no other process is inside a run
Alone(i) == \A j \in Importers \ {i} : pc[j] \in {"idle", "done", "aborted"}

\* import-curriculum runs that do not overlap
NextSeq == \E i \in Importers : Alone(i) /\ import_curriculum(i)

SpecSeq == Init /\ [][NextSeq]_vars

\* register and login requests served side by side
NextAuth == \E c \in Requests : register(c) \/ register_commit(c) \/ login(c)

SpecAuth == Init /\ [][NextAuth]_vars

\* ---------------------------------------------------------------- claims
Returns(m, key) == IF <<m, key>> \in DOMAIN createdN THEN createdN[<<m, key>>] ELSE 0

OnePerKey(m) == \A r1, r2 \in db[m] : r1.key = r2.key => r1 = r2

\* C1: when runs do not overlap, a row with six non-empty fields that was already
\* processed to its end inserts nothing and adds nothing to the created counts
\* when it is imported again, and every table holds one row per natural key.
C1_ImportIdempotent ==
    /\ [](\A m \in Models : OnePerKey(m))
    /\ [][\A i \in Importers :
            (pc[i] \in {"query", "insert", "requery"} /\ Stripped(row[i]) \in seenRows)
            => /\ db' = db
               /\ created_counts'[i] = created_counts[i]
               /\ pc[i] = "query"]_vars

C1_Witness ==
    \E i \in Importers :
        /\ pc[i] = "done" /\ rowStatus[i] = "ok"
        /\ processed_count[i] = 1 /\ error_count[i] = 0
        /\ created_counts[i] = ZeroCounts
        /\ \E m \in LeafModels : db[m] # {}

\* C2: however importers interleave, a Subject, Grade, Strand or SubStrand key has
\* at most one row, exactly one get_or_create call returned created = True for it,
\* every call returns that stored row (never None), and no row ends in the
\* error a None instance would raise.
C2_HierarchyRaceSafe ==
    /\ \A m \in HierarchyModels :
          /\ OnePerKey(m)
          /\ \A r \in db[m] : Returns(m, r.key) = 1
    /\ \A k \in DOMAIN createdN :
          k[1] \in HierarchyModels => createdN[k] = 1 /\ filter_by(k[1], k[2]) # {}
    /\ \A i \in Importers :
          /\ rowStatus[i] # "none_error"
          /\ (ret[i].via # "none" /\ ret[i].model \in HierarchyModels)
             => /\ ret[i].id # 0
                /\ [id |-> ret[i].id, key |-> ret[i].key] \in db[ret[i].model]

C2_Witness ==
    \E i, j \in Importers :
        /\ i # j
        /\ ret[i].via = "requery" /\ ~ret[i].created
        /\ ret[j].via = "insert" /\ ret[j].created
        /\ ret[i].model = ret[j].model /\ ret[i].model \in HierarchyModels
        /\ ret[i].key = ret[j].key /\ ret[i].id = ret[j].id

\* C3: a leaf insert never meets a uniqueness constraint: a get_or_create call on
\* LearningOutcome or KeyInquiryQuestion whose query found nothing inserts a new
\* row and returns created = True whatever was stored in between, so two
\* importers on the same row can leave two leaf rows with one (substrand, text).
C3_LeafInsertUnchecked ==
    [][\A i \in Importers :
        (pc[i] = "insert" /\ ModelAt(i) \in LeafModels /\ pc'[i] # "insert"
         /\ failures' = failures)
        => /\ ret'[i].model = ModelAt(i) /\ ret'[i].via = "insert" /\ ret'[i].created
           /\ Cardinality(db'[ModelAt(i)]) = Cardinality(db[ModelAt(i)]) + 1]_vars

C3_Witness ==
    \E m \in LeafModels : \E r1, r2 \in db[m] :
        /\ r1 # r2 /\ r1.key = r2.key
        /\ Returns(m, r1.key) = 2
        /\ \A i \in Importers : ret[i].model = m /\ ret[i].created /\ ret[i].key = r1.key

\* C4 (as claimed): after a persistence failure in a row, no entity the row created
\* at an earlier level remains stored, and the importer goes on to the next row.
C4_RowRolledBack ==
    \A i \in Importers :
        rowStatus[i] = "db_error"
        => /\ pc[i] \in {"rows", "query", "insert", "requery", "done"}
           /\ \A c \in rowCreated[i] : \A r \in db[c[1]] : r.id # c[2]

\* a cell that is empty after trimming (a cell the line did not have counts too)
EmptyAfterTrim(r) ==
    \E c \in Columns : \A k \in 1..Len(r[c]) : IsSpace(r[c][k])

\* C5: a row with a field that is empty after trimming counts one error, is
\* counted as processed, runs no get_or_create (store and created counts
\* unchanged) and leaves the importer at the next row.
C5_EmptyFieldRowSkipped ==
    [][\A i \in Importers :
        (processed_count'[i] = processed_count[i] + 1 /\ EmptyAfterTrim(row'[i]))
        => /\ error_count'[i] = error_count[i] + 1
           /\ db' = db
           /\ created_counts' = created_counts
           /\ ret' = ret
           /\ pc'[i] = "rows"
           /\ rowsLeft'[i] = rowsLeft[i] - 1]_vars

C5_Witness ==
    \E i \in Importers :
        /\ rowStatus[i] = "missing_data" /\ row[i].Strand = <<" ", " ">>
        /\ processed_count[i] = 2 /\ error_count[i] = 1 /\ pc[i] = "done"

BadFile(f) == ~f.exists \/ f.empty \/ ~(Columns \subseteq f.fieldnames)

SameLetter(a, b) == a = b \/ LowerChar(a) = b
KindAccepted(x) ==
    /\ x.t = "text"
    /\ \E w \in {multiple_choice, mcq, short_answer, true_false, fill_in_the_blank} :
         Len(w) = Len(x.s) /\ \A k \in 1..Len(w) : SameLetter(x.s[k], w[k])

\* C7: a single-outcome request whose count is outside 1..20, or whose kind is
\* not one of the five names whatever the letter case, ends with status 400
\* with no store lookup and no AI call made, whether or not its
\* learning_outcome_id exists.
C7_RejectedBeforeLookup ==
    (hpc # "idle" /\ req.endpoint = "questions"
     /\ \/ CanInt(req.data.num_questions)
           /\ (req.data.num_questions.v < 1 \/ req.data.num_questions.v > 20)
        \/ req.data.question_type.t # "absent" /\ ~KindAccepted(req.data.question_type))
    => /\ hpc = "done" /\ resp.status = 400
       /\ lookups = 0 /\ aiCalls = 0 /\ prompt = NoPrompt

C7_Witness ==
    /\ hpc = "done" /\ req.endpoint = "questions" /\ req.is_json
    /\ req.data.learning_outcome_id = IntV(1) /\ Row("LearningOutcome", 1) # {}
    /\ req.data.num_questions = IntV(21)
    /\ req.data.question_type = TextV(mcq)
    /\ resp.status = 400 /\ lookups = 0

\* a topic whose strand exists and has a learning outcome under a sub-strand
Survives(topic) ==
    /\ topic.t = "object"
    /\ CanInt(topic.strand_id)
    /\ \E st \in db["Strand"] : st.id = topic.strand_id.v
    /\ \E lo \in db["LearningOutcome"], ss \in db["SubStrand"] :
         ss.id = lo.key[2] /\ ss.key[2] = topic.strand_id.v
\* a topic with an integer or null strand id that does not survive
Dropped(topic) ==
    topic.t = "object" /\ topic.strand_id.t \in {"int", "numstr", "none", "absent"}
    /\ ~Survives(topic)
Topics == req.data.topics.items

\* C8: the AI service is called for a full-test request only with a prompt of at
\* least one section, for a request with a surviving topic; and a request with
\* existing subject and grade whose topics all name no strand, or a strand with
\* no learning outcome, ends with the no-valid-topics failure and no AI call.
C8_NoEmptyPrompt ==
    req.endpoint = "tests"
    => /\ (aiCalls > 0 \/ hpc = "ai")
          => /\ \E k \in 1..Len(Topics) : Survives(Topics[k])
             /\ prompt.mode = "full"
             /\ Len(prompt.prompt_sections) >= 1
       /\ (/\ hpc = "done" /\ req.is_json
           /\ CanInt(req.data.subject_id) /\ Row("Subject", req.data.subject_id.v) # {}
           /\ CanInt(req.data.grade_id) /\ Row("Grade", req.data.grade_id.v) # {}
           /\ req.data.topics.t = "list" /\ Len(Topics) > 0
           /\ \A k \in 1..Len(Topics) : Dropped(Topics[k]))
          => /\ resp = Reply(400, "No valid topics with learning outcomes found.")
             /\ aiCalls = 0

C8_Witness ==
    /\ hpc = "done" /\ req.endpoint = "tests" /\ ai_model
    /\ Topics = <<ObjTopic(IntV(9), Absent), ObjTopic(IntV(2), Absent)>>
    /\ Row("Strand", 2) # {}
    /\ resp = Reply(400, "No valid topics with learning outcomes found.")
    /\ aiCalls = 0

\* the AI service answered with a text between two fence markers
Fenced(t) == ~t.raised /\ t.open \in {Fence, FenceJson} /\ t.close = Fence

\* C9 (as claimed): for an AI text that opens with a fence marker, annotated as
\* JSON or not, and ends with a closing fence, the text handed to the JSON
\* parser is the trimmed body between the two markers.
C9_FencesStripped ==
    (hpc = "done" /\ aiCalls > 0 /\ Fenced(aiText) /\ strip(aiText.body) # <<>>)
    => parserInput = [called |-> TRUE, text |-> strip(aiText.body)]

\* C10 (as claimed): an AI text that is empty after trimming and fence stripping
\* (nothing, blanks only, or fences with nothing but blanks between them) gives
\* the empty-response failure and is never handed to the JSON parser.
C10_EmptyResponseDistinct ==
    (/\ hpc = "done" /\ aiCalls > 0 /\ ~aiText.raised
     /\ strip(aiText.body) = <<>>
     /\ Fenced(aiText) \/ (aiText.open = <<>> /\ aiText.close = <<>>))
    => /\ resp = Reply(500, "AI returned an empty response.")
       /\ ~parserInput.called

\* the AI text without its blanks and its fence markers
Unfenced(t) == strip(t.body)
\* the AI service answered with a text in fence markers, or with a bare text
Answered(t) ==
    ~t.raised /\ (Fenced(t) \/ (t.open = <<>> /\ t.close = <<>>))

\* C11 (as claimed): a single-outcome request whose AI text, stripped of blanks
\* and fence markers, parses as a JSON list (the empty list too) ends with status
\* 200 and that list; every other AI text ends with status 500 and no data.
C11_ListOrFailure ==
    (hpc = "done" /\ req.endpoint = "questions" /\ aiCalls > 0 /\ Answered(aiText))
    => LET parsed == json_loads(Unfenced(aiText)) IN
       IF parsed.ok /\ parsed.value.kind = "list"
       THEN resp = [status |-> 200, error |-> "", body |-> parsed.value]
       ELSE resp.status = 500 /\ resp.body = NoValue

\* C12 (as claimed): a full-test request ends with status 200 only with a parsed
\* AI value that is an object with a test_title and a list of sections.
C12_TestShapeChecked ==
    (hpc = "done" /\ req.endpoint = "tests" /\ resp.status = 200)
    => resp.body.kind = "dict" /\ resp.body.test

\* the prompt_sections the loop over the topics can build for the request from
\* the store as it is
SectionTexts ==
    { Sections(Topics, ords, 1) :
        ords \in [1..Len(Topics) -> Orders(db["LearningOutcome"])] }

\* the one row of a table with this id
TheRow(m, id) == CHOOSE r \in db[m] : r.id = id

\* C13 (as claimed): the prompt sent is a function of the payload and the store:
\* a single-outcome prompt holds the count, the mapped kind and the names the
\* store has for the learning outcome, and a full-test prompt is the only one
\* its payload can give on this store, the order of the learning outcomes of a
\* section included.
C13_PromptDeterministic ==
    /\ prompt.mode = "single"
       => LET lo == TheRow("LearningOutcome", req.data.learning_outcome_id.v)
              ss == TheRow("SubStrand", lo.key[2])
              st == TheRow("Strand", ss.key[2])
          IN prompt = [mode |-> "single",
                       num_q |-> req.data.num_questions.v,
                       mapped_q_type |-> q_type_map(lower(StrOf(req.data.question_type))),
                       subject |-> TheRow("Subject", st.key[2]).key[1],
                       grade |-> TheRow("Grade", st.key[3]).key[1],
                       strand |-> st.key[1], substrand |-> ss.key[1],
                       outcome_description |-> lo.key[1]]
    /\ prompt.mode = "full"
       => \A s \in SectionTexts : prompt.prompt_sections = s

\* two emails that differ at most in letter case and in blanks around them
SameAddress(a, b) ==
    LET x == strip(a)
        y == strip(b)
    IN Len(x) = Len(y) /\ \A k \in 1..Len(x) : LowerChar(x[k]) = LowerChar(y[k])

\* an email without blanks around it and without upper-case letters
TrimmedLower(e) ==
    /\ e # <<>> => ~IsSpace(e[1]) /\ ~IsSpace(e[Len(e)])
    /\ \A k \in 1..Len(e) : \A j \in 1..Len(UpperCase) : e[k] # UpperCase[j]

\* C14 (as claimed): every stored user email is trimmed and lower-case, and once a
\* registration with email E and password P was answered 201, a login with P and
\* an email that differs from E only in letter case or in blanks around it is
\* answered 200 with that user.
C14_LoginNormalized ==
    /\ [](\A u \in users : TrimmedLower(u.email))
    /\ [][\A c, d \in Requests :
            (/\ apc[c] = "done" /\ areq[c].endpoint = "register"
             /\ aresp[c].status = 201
             /\ apc[d] = "idle" /\ apc'[d] = "done"
             /\ areq'[d].endpoint = "login" /\ areq'[d].is_json
             /\ areq'[d].password = areq[c].password
             /\ SameAddress(areq'[d].email.s, areq[c].email.s))
            => aresp'[d] = [status |-> 200, error |-> "", user |-> aresp[c].user]]_vars

\* a registration request with a non-empty email and a non-empty password
Registration(r) == r.endpoint = "register" /\ r.is_json /\ ~MissingCredentials(r)

\* C15 (as claimed): a registration request with a non-empty email and password
\* is answered 201, with exactly one user of its normalized email added, or 409,
\* with no user added and the normalized email stored already, however two
\* registrations interleave; and no two stored users share a normalized email.
C15_RegisterOutcomes ==
    /\ [](\A c \in Requests :
            (apc[c] = "done" /\ Registration(areq[c])) => aresp[c].status \in {201, 409})
    /\ [](\A u1, u2 \in users : SameAddress(u1.email, u2.email) => u1 = u2)
    /\ [][\A c \in Requests :
            (apc[c] # "done" /\ apc'[c] = "done" /\ Registration(areq'[c]))
            => /\ aresp'[c].status = 201
                  => /\ Cardinality(users') = Cardinality(users) + 1
                     /\ \E u \in users' \ users :
                          u.id = aresp'[c].user /\ SameAddress(u.email, areq'[c].email.s)
               /\ aresp'[c].status # 201
                  => /\ users' = users
                     /\ \E u \in users : SameAddress(u.email, areq'[c].email.s)]_vars

\* a single-outcome payload with a field that is missing, of the wrong type or
\* out of range
MalformedQuestions(data) ==
    \/ \E f \in {"learning_outcome_id", "num_questions"} : ~CanInt(data[f])
    \/ data.num_questions.v < 1 \/ data.num_questions.v > NumQuestionsLimit
    \/ ~KindAccepted(data.question_type)

\* a topic that is no object with an integer strand_id and, if it has one, an
\* integer num_questions
MalformedTopic(topic) ==
    \/ topic.t # "object"
    \/ topic.strand_id.t # "int"
    \/ topic.num_questions.t \notin {"int", "absent"}

\* a full-test payload with a field that is missing or of the wrong type
MalformedTest(data) ==
    \/ data.subject_id.t # "int" \/ data.grade_id.t # "int"
    \/ data.topics.t # "list" \/ data.topics.items = <<>>
    \/ \E k \in 1..Len(data.topics.items) : MalformedTopic(data.topics.items[k])

\* C16 (as claimed): a JSON request to either generation endpoint with a missing
\* or malformed field is answered with status 400, never 404 or 500, and no AI
\* call is made for it.
C16_ValidationErrors ==
    (/\ hpc # "idle" /\ req.is_json
     /\ \/ req.endpoint = "questions" /\ MalformedQuestions(req.data)
        \/ req.endpoint = "tests" /\ MalformedTest(req.data))
    => /\ aiCalls = 0 /\ hpc # "ai"
       /\ hpc = "done" => resp.status = 400

\* the row of importer i has an ItemType that names no leaf model
InvalidType(i) == Stripped(row[i]).ItemType \notin LeafTypes

\* the Subject, Grade, Strand and SubStrand the row of importer i names are stored
HierarchyStored(i, store) ==
    LET r == Stripped(row[i]) IN
    \E su \in store["Subject"], g \in store["Grade"], st \in store["Strand"],
       ss \in store["SubStrand"] :
        /\ su.key = <<r.Subject>> /\ g.key = <<r.Grade>>
        /\ st.key = <<r.Strand, su.id, g.id>>
        /\ ss.key = <<r.SubStrand, st.id>>

\* C17: a row with six non-empty fields and an ItemType that is neither
\* LearningOutcome nor KeyInquiryQuestion runs the four get_or_create calls of the
\* hierarchy and no call on a leaf model; each row it inserts is counted as created;
\* when the row ends, one error is counted, and unless a persistence failure ended
\* it, it ends after the SubStrand call with Subject, Grade, Strand and SubStrand
\* stored and the importer at the next row.
C17_InvalidItemType ==
    [][\A i \in Importers :
        (/\ pc[i] \in {"query", "insert", "requery"} /\ InvalidType(i)
         /\ (pc'[i] # pc[i] \/ level'[i] # level[i]))
        => /\ level[i] <= 4
           /\ \A m \in LeafModels :
                 created_counts'[i][m] = created_counts[i][m]
                 /\ \A c \in rowCreated'[i] : c[1] # m
           /\ processed_count'[i] = processed_count[i]
           /\ \A m \in HierarchyModels :
                 created_counts'[i][m] - created_counts[i][m]
                 = Cardinality(rowCreated'[i] \ rowCreated[i])
                   * (IF m = ModelAt(i) THEN 1 ELSE 0)
           /\ IF pc'[i] = "rows"
              THEN /\ error_count'[i] = error_count[i] + 1
                   /\ failures' = failures
                      => /\ rowStatus'[i] = "invalid_type" /\ level[i] = 4
                         /\ HierarchyStored(i, db')
              ELSE error_count'[i] = error_count[i]]_vars

C17_Witness ==
    \E i \in Importers :
        /\ pc[i] = "done" /\ processed_count[i] = 2 /\ error_count[i] = 1
        /\ rowStatus[i] = "ok"
        /\ \E r \in seenRows : r.ItemType = <<"Essay">>
        /\ created_counts[i] = [Subject |-> 1, Grade |-> 1, Strand |-> 1, SubStrand |-> 1,
                                LearningOutcome |-> 1, KeyInquiryQuestion |-> 0]
        /\ \A j \in Importers \ {i} : pc[j] = "idle"
====
